---- MODULE Spec2Model ----
(***************************************************************************)
(* The cloud lifecycle simulation of src/main.js (the VolumetricClouds     *)
(* effect): CloudSystem, PrecipitationSystem, LightningSystem and the      *)
(* animate frame loop that drives them.                                    *)
(*                                                                         *)
(* Numbers.  JavaScript numbers are modelled in fixed point:               *)
(*   Math.random()            in 1/10000        (0 .. 9999)                *)
(*   moisture, intensity      in 1/10000        (1.0 is One = 10000)       *)
(*   seconds (age, deltaTime) in 1/100 s        (0.2 s is 20)              *)
(*   lengths (x, y, speeds)   in 1/1000         (a height of 1.0 is 1000)  *)
(*   shakeIntensity           in 1/10000                                   *)
(*   humidity                 in percent, evaporationRate and              *)
(*   simulationSpeed          in tenths (the step of the UI sliders)       *)
(* Products are divided with \div (floor); an increment smaller than the   *)
(* resolution is lost, which is the model's rounding, not the program's.   *)
(***************************************************************************)
EXTENDS Integers, Sequences, FiniteSets, TLC

VARIABLES
  controls,         \* React state: [evaporationRate, simulationSpeed]
  session,          \* "running", or "tornDown" once the effect cleanup has run
  time,             \* animate's time, as the band of the humidity oscillator
  humidity,         \* cloudSystem.humidity
  evaporationRate,  \* cloudSystem.evaporationRate
  clouds,           \* cloudSystem.clouds, in creation order
  nextId,           \* identity of the next cloud object created
  deltaTime,        \* deltaTime of the last frame
  frame,            \* number of animate calls so far
  wall,             \* Date.now() - lastTime, in 1/100 s
  rainSystems,      \* precipSystem.rainSystems: cloud id -> rain pool
  spawnLog,         \* per pool, the spawn loop of the last update
  activeBolts,      \* lightningSystem.activeBolts
  shakeIntensity,   \* lightningSystem.shakeIntensity
  flashLights,      \* intensity of the three flash lights
  background,       \* scene.background
  timers,           \* pending setTimeout callbacks
  quiet,            \* deltaTime summed over the updates since the last trigger
  probe             \* argument and result of a function applied on its own

cloudVars == <<time, humidity, evaporationRate, clouds, nextId, deltaTime>>
rainVars  == <<rainSystems, spawnLog>>
clockVars == <<frame, wall>>
boltVars  == <<activeBolts, shakeIntensity, flashLights, background, timers, quiet>>
vars == <<controls, session, time, humidity, evaporationRate, clouds, nextId, deltaTime,
          frame, wall, rainSystems, spawnLog, activeBolts, shakeIntensity, flashLights,
          background, timers, quiet, probe>>

----------------------------------------------------------------------------
(* Program constants *)

One == 10000                    \* the 1 of (1 - precipitationThreshold)
maxClouds == 18
InitialClouds == 10
maxParticlesPerCloud == 500
MoistureCeiling == 10000        \* Math.min(1, ...)
MoistureFloor == 2000           \* Math.max(0.2, ...)
BoltLifetime == 20              \* boltData.age > 0.2
ShakeStart == 25000             \* shakeIntensity = 2.5
ShakeFloor == 100               \* shakeIntensity > 0.01
FlashRevertDelay == 5           \* setTimeout(..., 50)
FlashFadeDelay == 15            \* setTimeout(..., 150)
WrapX == 100000                 \* cloud.position.x > 100

(* Bounds of the model *)

MaxCreated == 11                \* cloud objects created in one run (solo runs)
MaxFrames == 4                  \* frames of one run of the whole frame loop
MaxBolts == 2                   \* bolts alive at once
MaxWall == 25                   \* longest wait for a frame while callbacks are modelled
MaxQuiet == 30                  \* the sum of deltaTime since the last trigger is followed up to here
MaxPopulation == 20             \* cloud objects created in one population run

----------------------------------------------------------------------------
(* The environment: animate, lines 876 and 883-886.                        *)
(* time += 0.01 * simulationSpeed; humidity = 50 + sin(time * 0.1) * 30.    *)
(* One period of the oscillator is cut into bands; a frame stays in its    *)
(* band or enters the next one.                                            *)

HumidityCycle == <<50, 65, 72, 80, 72, 65, 50, 35, 20, 35>>

Environment(t) == HumidityCycle[t + 1]

AdvanceTime(t, step) == (t + step) % Len(HumidityCycle)

----------------------------------------------------------------------------
(* CloudSystem *)

(* The cascade with the stratocumulus rule tried first. *)
determineCloudTypeReordered(h, rand) ==
  IF rand > 7000 THEN "stratocumulus"
  ELSE IF h > 75 /\ rand > 7000 THEN "cumulonimbus"
  ELSE IF h > 70 /\ rand > 6000 THEN "cumulus_congestus"
  ELSE IF h > 60 /\ rand > 5000 THEN "cumulus_mediocris"
  ELSE "cumulus_humilis"

(* Lines 157-166; rand is the one Math.random() draw of the call. *)
determineCloudType(h, rand) ==
  IF h > 75 /\ rand > 7000 THEN "cumulonimbus"
  ELSE IF h > 70 /\ rand > 6000 THEN "cumulus_congestus"
  ELSE IF h > 60 /\ rand > 5000 THEN "cumulus_mediocris"
  ELSE IF rand > 7000 THEN "stratocumulus"
  ELSE "cumulus_humilis"

(* d: the Math.random() draws of one createCloud call, in call order. *)
createCloud(h, d, id) ==
  LET cloudType == determineCloudType(h, d.type)
      capable == \/ cloudType = "cumulonimbus"
                 \/ cloudType = "cumulus_congestus"
                 \/ (cloudType = "cumulus_mediocris" /\ d.cap > 7000)
      threshold == IF cloudType = "cumulonimbus" THEN 6000
                   ELSE IF cloudType = "cumulus_congestus" THEN 7000
                   ELSE 8000
  IN [ id |-> id,
       type |-> cloudType,
       x |-> (d.x - 5000) * 8,
       y |-> d.y * 2 + 5000,
       initialY |-> d.y * 2 + 5000,
       z |-> (d.z - 5000) * 8,
       scale |-> 100,
       speed |-> 20 + ((d.speed * 3) \div 1000),
       age |-> 0,
       maxAge |-> 30000 + d.maxAge * 2,
       moisture |-> (d.moisture \div 2) + 3000,
       growth |-> 500 + (d.growth \div 20),
       stage |-> "growing",
       baseScale |-> 1000 + ((d.baseScale * 8) \div 100),
       precipitating |-> FALSE,
       canPrecipitate |-> capable,
       precipitationThreshold |-> threshold,
       precipitationIntensity |-> 0,
       disposed |-> 0 ]

(* cloud.scale.x in the growing stage:                                     *)
(* baseScale * (lifeRatio / 0.2) * growth.                                 *)
GrowthScale(cloud, age) ==
  (((cloud.baseScale * cloud.growth) \div 1000) * 5 * age) \div cloud.maxAge

(* deltaTime * 0.0005 *)
Regain(dt) == dt \div 20

(* deltaTime * 0.002 * precipitationIntensity * evaporationRate *)
RainLoss(dt, intensity, evap) == (((dt * 2 * evap) \div 100) * intensity) \div One

(* deltaTime * 0.002 / evaporationRate *)
HumidGain(dt, evap) == (dt * 2) \div evap

(* deltaTime * 0.001 * evaporationRate *)
DryLoss(dt, evap) == (dt * evap) \div 100

Min(a, b) == IF a < b THEN a ELSE b
Max(a, b) == IF a > b THEN a ELSE b

(* The precipitation check without its humidity condition. *)
MaturePrecipitationAnyHumidity(c, dt, h, evap) ==
  IF c.canPrecipitate /\ c.moisture > c.precipitationThreshold
  THEN LET intensity == ((c.moisture - c.precipitationThreshold) * One)
                          \div (One - c.precipitationThreshold)
       IN [c EXCEPT !.precipitating = TRUE,
                    !.precipitationIntensity = intensity,
                    !.moisture = @ + Regain(dt) - RainLoss(dt, intensity, evap)]
  ELSE [c EXCEPT !.precipitating = FALSE, !.precipitationIntensity = 0]

(* The precipitation check without the capability of the cloud. *)
MaturePrecipitationAnyCloud(c, dt, h, evap) ==
  IF c.moisture > c.precipitationThreshold /\ h > 60
  THEN LET intensity == ((c.moisture - c.precipitationThreshold) * One)
                          \div (One - c.precipitationThreshold)
       IN [c EXCEPT !.precipitating = TRUE,
                    !.precipitationIntensity = intensity,
                    !.moisture = @ + Regain(dt) - RainLoss(dt, intensity, evap)]
  ELSE [c EXCEPT !.precipitating = FALSE, !.precipitationIntensity = 0]

(* Lines 497-512: the precipitation check of the mature stage. *)
MaturePrecipitation(c, dt, h, evap) ==
  IF c.canPrecipitate /\ c.moisture > c.precipitationThreshold /\ h > 60
  THEN LET intensity == ((c.moisture - c.precipitationThreshold) * One)
                          \div (One - c.precipitationThreshold)
       IN [c EXCEPT !.precipitating = TRUE,
                    !.precipitationIntensity = intensity,
                    !.moisture = @ + Regain(dt) - RainLoss(dt, intensity, evap)]
  ELSE [c EXCEPT !.precipitating = FALSE, !.precipitationIntensity = 0]

(* Lines 522-529: environmental moisture exchange. *)
MoistureExchange(c, dt, h, evap) ==
  IF h > 70
  THEN [c EXCEPT !.moisture = Min(MoistureCeiling, @ + HumidGain(dt, evap))]
  ELSE IF h < 40
  THEN [c EXCEPT !.moisture = Max(MoistureFloor, @ - DryLoss(dt, evap))]
  ELSE c

(* age = deltaTime in place of age += deltaTime. *)
AddAgeAssigned(cloud, dt) == [cloud EXCEPT !.age = dt]

(* Lines 461-462. *)
AddAge(cloud, dt) == [cloud EXCEPT !.age = @ + dt]

(* updateCloud whose dissipating branch leaves the precipitating flag. *)
updateCloudRainingOn(cloud, dt, h, evap) ==
  LET aged == AddAge(cloud, dt)
      age == aged.age
      staged ==
        IF 5 * age < aged.maxAge
        THEN [aged EXCEPT !.stage = "growing", !.scale = GrowthScale(aged, age)]
        ELSE IF 10 * age < 7 * aged.maxAge
        THEN MaturePrecipitation([aged EXCEPT !.stage = "mature"], dt, h, evap)
        ELSE [aged EXCEPT !.stage = "dissipating"]
  IN [ cloud |-> MoistureExchange(staged, dt, h, evap),
       remove |-> age >= aged.maxAge ]

(* updateCloud(cloud, deltaTime): the cloud after the call and the value   *)
(* returned.  lifeRatio < 0.2 is 5*age < maxAge, lifeRatio < 0.7 is        *)
(* 10*age < 7*maxAge and lifeRatio >= 1 is age >= maxAge.                  *)
updateCloud(cloud, dt, h, evap) ==
  LET aged == AddAge(cloud, dt)
      age == aged.age
      staged ==
        IF 5 * age < aged.maxAge
        THEN [aged EXCEPT !.stage = "growing", !.scale = GrowthScale(aged, age)]
        ELSE IF 10 * age < 7 * aged.maxAge
        THEN MaturePrecipitation([aged EXCEPT !.stage = "mature"], dt, h, evap)
        ELSE [aged EXCEPT !.stage = "dissipating", !.precipitating = FALSE]
  IN [ cloud |-> MoistureExchange(staged, dt, h, evap),
       remove |-> age >= aged.maxAge ]

Splice(s, i) == [k \in 1..(Len(s) - 1) |-> IF k < i THEN s[k] ELSE s[k + 1]]

(* The loop walked forward: the element after a removed one is skipped. *)
RECURSIVE ForwardLoop(_, _, _, _, _)
ForwardLoop(cs, j, dt, h, evap) ==
  IF j > Len(cs) THEN cs
  ELSE LET r == updateCloud(cs[j], dt, h, evap)
       IN IF r.remove
          THEN ForwardLoop(Splice(cs, j), j + 1, dt, h, evap)
          ELSE ForwardLoop([cs EXCEPT ![j] = r.cloud], j + 1, dt, h, evap)

UpdateLoopForward(cs, i, dt, h, evap) == ForwardLoop(cs, 1, dt, h, evap)

(* Lines 548-560: for (i = length - 1; i >= 0; i--), here i = Len .. 1. *)
RECURSIVE UpdateLoop(_, _, _, _, _)
UpdateLoop(cs, i, dt, h, evap) ==
  IF i = 0 THEN cs
  ELSE LET r == updateCloud(cs[i], dt, h, evap)
       IN IF r.remove
          THEN UpdateLoop(Splice(cs, i), i - 1, dt, h, evap)
          ELSE UpdateLoop([cs EXCEPT ![i] = r.cloud], i - 1, dt, h, evap)

(* The guard with <= in place of <. *)
SpawnsAtLimit(cs, h, rand) == Len(cs) <= maxClouds /\ rand < 2 * h

(* Line 544: the guard of createCloud; rand is the Math.random() draw. *)
Spawns(cs, h, rand) == Len(cs) < maxClouds /\ rand < 2 * h

(* CloudSystem.update(deltaTime). *)
CloudSystem_update(cs, dt, h, evap, rand, d, id) ==
  LET grown == IF Spawns(cs, h, rand) THEN Append(cs, createCloud(h, d, id)) ELSE cs
  IN UpdateLoop(grown, Len(grown), dt, h, evap)

getPrecipitatingClouds(cs) == SelectSeq(cs, LAMBDA c : c.precipitating)

Ids(cs) == {cs[i].id : i \in 1..Len(cs)}

CloudOf(cs, id) == cs[CHOOSE i \in 1..Len(cs) : cs[i].id = id]

----------------------------------------------------------------------------
(* PrecipitationSystem.  A rain pool holds positions (Float32Array, three  *)
(* numbers a particle) and velocities (one number a particle), both of     *)
(* maxParticlesPerCloud slots, and activeParticles.  Slot i here is index  *)
(* i - 1 of the code.                                                      *)

NewRainSystem ==
  [ activeParticles |-> 0,
    positions |-> [i \in 1..maxParticlesPerCloud |-> <<0, 0, 0>>],
    velocities |-> [i \in 1..maxParticlesPerCloud |-> 0] ]

getOrCreateRainSystem(rs, id) == IF id \in DOMAIN rs THEN rs[id] ELSE NewRainSystem

(* A typed array ignores a write past its end. *)
SetSlot(arr, i, v) == IF i \in 1..Len(arr) THEN [arr EXCEPT ![i] = v] ELSE arr

(* The spawn condition without the capacity test. *)
CanSpawnUnlimited(pool, d) == d.hit < 4000

(* Line 628. *)
CanSpawn(pool, d) == pool.activeParticles < maxParticlesPerCloud /\ d.hit < 4000

(* Lines 629-643: one raindrop, from the draws d of the attempt. *)
SpawnParticle(pool, cloud, d) ==
  LET slot == pool.activeParticles + 1
      spread == 12 * cloud.scale
      intensity == cloud.precipitationIntensity
      pos == << cloud.x + (((d.x - 5000) * spread) \div 10000),
                cloud.y - 2000 + (((d.y - 5000) * 6) \div 10),
                cloud.z + (((d.z - 5000) * spread) \div 10000) >>
      vel == 0 - 500 - ((d.v * 4) \div 100) - ((intensity * 3) \div 100)
  IN [ activeParticles |-> slot,
       positions |-> SetSlot(pool.positions, slot, pos),
       velocities |-> SetSlot(pool.velocities, slot, vel) ]

(* Lines 627-645: attempt k of n takes the draws ds[k] (ds is reused       *)
(* cyclically).                                                            *)
RECURSIVE SpawnLoop(_, _, _, _, _)
SpawnLoop(pool, cloud, k, n, ds) ==
  IF k > n THEN pool
  ELSE LET d == ds[((k - 1) % Len(ds)) + 1]
       IN IF CanSpawn(pool, d)
          THEN SpawnLoop(SpawnParticle(pool, cloud, d), cloud, k + 1, n, ds)
          ELSE SpawnLoop(pool, cloud, k + 1, n, ds)

(* Math.floor(intensity * 8) *)
SpawnRate(cloud) == (cloud.precipitationIntensity * 8) \div One

(* The loop body that moves the position and leaves the velocity. *)
CompactStepPositionOnly(st, i) ==
  IF i > Len(st.positions) THEN st
  ELSE LET moved == [st.positions EXCEPT ![i][2] = @ + st.velocities[i]]
           w == st.activeParticles
       IN IF moved[i][2] > 0
          THEN [ activeParticles |-> w + 1,
                 positions |-> SetSlot(moved, w + 1, moved[i]),
                 velocities |-> st.velocities ]
          ELSE [st EXCEPT !.positions = moved]

(* The loop body without positions[idx + 1] += velocities[i]. *)
CompactStepNoFall(st, i) ==
  IF i > Len(st.positions) THEN st
  ELSE LET moved == st.positions
           w == st.activeParticles
       IN IF moved[i][2] > 0
          THEN IF w + 1 # i
               THEN [ activeParticles |-> w + 1,
                      positions |-> SetSlot(moved, w + 1, moved[i]),
                      velocities |-> SetSlot(st.velocities, w + 1, st.velocities[i]) ]
               ELSE [ activeParticles |-> w + 1,
                      positions |-> moved,
                      velocities |-> st.velocities ]
          ELSE [st EXCEPT !.positions = moved]

(* The loop body that keeps a particle at height 0. *)
CompactStepKeepsGround(st, i) ==
  IF i > Len(st.positions) THEN st
  ELSE LET moved == [st.positions EXCEPT ![i][2] = @ + st.velocities[i]]
           w == st.activeParticles
       IN IF moved[i][2] >= 0
          THEN IF w + 1 # i
               THEN [ activeParticles |-> w + 1,
                      positions |-> SetSlot(moved, w + 1, moved[i]),
                      velocities |-> SetSlot(st.velocities, w + 1, st.velocities[i]) ]
               ELSE [ activeParticles |-> w + 1,
                      positions |-> moved,
                      velocities |-> st.velocities ]
          ELSE [st EXCEPT !.positions = moved]

(* Lines 650-661: the body of the compaction loop for particle i;          *)
(* st.activeParticles is writeIdx.  A read past the end of a typed array   *)
(* is undefined, and undefined > 0 is false.                               *)
CompactStep(st, i) ==
  IF i > Len(st.positions) THEN st
  ELSE LET moved == [st.positions EXCEPT ![i][2] = @ + st.velocities[i]]
           w == st.activeParticles
       IN IF moved[i][2] > 0
          THEN IF w + 1 # i
               THEN [ activeParticles |-> w + 1,
                      positions |-> SetSlot(moved, w + 1, moved[i]),
                      velocities |-> SetSlot(st.velocities, w + 1, st.velocities[i]) ]
               ELSE [ activeParticles |-> w + 1,
                      positions |-> moved,
                      velocities |-> st.velocities ]
          ELSE [st EXCEPT !.positions = moved]

(* Lines 648-664: the loop for i = lo .. hi in increasing order.  The      *)
(* range is halved, and the first half is evaluated (its writeIdx is read) *)
(* before the second half starts, only to keep the evaluation shallow.     *)
RECURSIVE CompactRange(_, _, _)
CompactRange(st, lo, hi) ==
  IF lo > hi THEN st
  ELSE IF lo = hi THEN CompactStep(st, lo)
  ELSE LET mid == (lo + hi) \div 2
           left == CompactRange(st, lo, mid)
       IN IF left.activeParticles < 0 THEN left
          ELSE CompactRange(left, mid + 1, hi)

Compact(pool) ==
  CompactRange([pool EXCEPT !.activeParticles = 0], 1, pool.activeParticles)

(* Lines 618-669, for one precipitating cloud. *)
UpdateRain(pool, cloud, ds) ==
  LET spawned == SpawnLoop(pool, cloud, 1, SpawnRate(cloud), ds)
  IN Compact(spawned)

(* What the spawn loop of the update did to the pool. *)
SpawnRecord(pool, cloud, ds) ==
  [ before |-> pool.activeParticles,
    attempts |-> SpawnRate(cloud),
    afterSpawn |-> SpawnLoop(pool, cloud, 1, SpawnRate(cloud), ds).activeParticles ]

(* The release loop that deletes no pool. *)
ReleaseNone(rs, precipitating) == rs

(* Lines 608-615: the pools of the clouds that are not in the list are     *)
(* removed from the scene, disposed and deleted from the map.              *)
ReleaseStopped(rs, precipitating) ==
  [id \in (DOMAIN rs) \cap Ids(precipitating) |-> rs[id]]

(* PrecipitationSystem.update(precipitatingClouds): the pools of the       *)
(* clouds not in the list are released (lines 608-615), the others are     *)
(* created when missing and updated (lines 618-669).                       *)
PrecipitationSystem_update(rs, precipitating, ds) ==
  LET kept == ReleaseStopped(rs, precipitating)
  IN [ id \in (DOMAIN kept) \cup Ids(precipitating) |->
         IF id \in Ids(precipitating)
         THEN UpdateRain(getOrCreateRainSystem(kept, id), CloudOf(precipitating, id), ds)
         ELSE kept[id] ]

SpawnLogOf(rs, precipitating, ds) ==
  [ id \in Ids(precipitating) |->
      SpawnRecord(getOrCreateRainSystem(rs, id), CloudOf(precipitating, id), ds) ]

----------------------------------------------------------------------------
(* LightningSystem.  ls is the record of its fields together with          *)
(* scene.background and the pending setTimeout callbacks.  A bolt is its   *)
(* age; a pending callback is its kind and the wall-clock time, in 1/100   *)
(* s, left until it is due.  The camera and the bolt geometry are not      *)
(* modelled.                                                               *)

Dark == <<0, 0, 0>>

(* Lines 779-783: this.shakeIntensity *= this.shakeDecay. *)
DecayShake(shake) == IF shake > ShakeFloor THEN (shake * 9) \div 10 ELSE shake

(* Line 787. *)
StormPotential(cloud) == (cloud.moisture * cloud.precipitationIntensity) \div One

(* Every cloud above the cumulonimbus threshold, whatever its type. *)
CanStrikeAnyType(cloud) == StormPotential(cloud) > 7000

(* Lines 789 and 793: the clouds for which Math.random() is drawn. *)
CanStrike(cloud) ==
  \/ cloud.type = "cumulonimbus" /\ StormPotential(cloud) > 7000
  \/ cloud.type = "cumulus_congestus" /\ StormPotential(cloud) > 8000

(* light.intensity = 6 + Math.random() * 4 *)
FlashIntensity(rand) == 60000 + rand * 4

(* trigger that registers no callback for the lights. *)
triggerWithoutFade(ls, flash) ==
  [ activeBolts |-> Append(ls.activeBolts, [age |-> 0, disposed |-> 0]),
    shakeIntensity |-> ShakeStart,
    flashLights |-> [k \in 1..3 |-> FlashIntensity(flash[k])],
    background |-> "white",
    timers |-> ls.timers \o << [kind |-> "revert", left |-> FlashRevertDelay] >> ]

(* trigger(cloud), lines 727-775; flash: the draws of line 738. *)
trigger(ls, flash) ==
  [ activeBolts |-> Append(ls.activeBolts, [age |-> 0, disposed |-> 0]),
    shakeIntensity |-> ShakeStart,
    flashLights |-> [k \in 1..3 |-> FlashIntensity(flash[k])],
    background |-> "white",
    timers |-> ls.timers \o << [kind |-> "revert", left |-> FlashRevertDelay],
                               [kind |-> "fade", left |-> FlashFadeDelay] >> ]

(* Lines 786-798: strikes holds the clouds whose draw is below the rate. *)
RECURSIVE TriggerLoop(_, _, _, _, _)
TriggerLoop(ls, storm, k, strikes, flash) ==
  IF k > Len(storm) THEN ls
  ELSE IF CanStrike(storm[k]) /\ storm[k].id \in strikes
  THEN TriggerLoop(trigger(ls, flash), storm, k + 1, strikes, flash)
  ELSE TriggerLoop(ls, storm, k + 1, strikes, flash)

Struck(storm, strikes) ==
  {storm[k].id : k \in {j \in 1..Len(storm) : CanStrike(storm[j])}} \cap strikes

(* A bolt that lives a quarter of a second. *)
ExpiredLate(age) == age > BoltLifetime + 5

(* Line 805. *)
Expired(age) == age > BoltLifetime

(* Lines 801-814: for (i = length - 1; i >= 0; i--), here i = Len .. 1. *)
RECURSIVE AgeBolts(_, _, _)
AgeBolts(bolts, i, dt) ==
  IF i = 0 THEN bolts
  ELSE LET aged == [bolts EXCEPT ![i].age = @ + dt]
       IN IF Expired(aged[i].age)
          THEN AgeBolts(Splice(aged, i), i - 1, dt)
          ELSE AgeBolts(aged, i - 1, dt)

(* LightningSystem.update(stormClouds, deltaTime). *)
LightningSystem_update(ls, storm, dt, strikes, flash) ==
  LET shaken == [ls EXCEPT !.shakeIntensity = DecayShake(@)]
      struck == TriggerLoop(shaken, storm, 1, strikes, flash)
  IN [struck EXCEPT !.activeBolts = AgeBolts(@, Len(@), dt)]

Lightning ==
  [ activeBolts |-> activeBolts, shakeIntensity |-> shakeIntensity,
    flashLights |-> flashLights, background |-> background, timers |-> timers ]

(* The pending callbacks after w of wall-clock time. *)
AgeTimers(ts, w) == [k \in 1..Len(ts) |-> [ts[k] EXCEPT !.left = @ - w]]

Due(t) == t.left <= 0

(* The callback the event loop runs next: the one due first, and of two    *)
(* due together the one registered first.                                  *)
NextTimer(ts) ==
  CHOOSE k \in 1..Len(ts) :
    /\ Due(ts[k])
    /\ \A j \in 1..Len(ts) :
         Due(ts[j]) => \/ ts[k].left < ts[j].left
                       \/ (ts[k].left = ts[j].left /\ k <= j)

AnyDue(ts) == \E k \in 1..Len(ts) : Due(ts[k])

(* Lines 765-767 and 770-774: a setTimeout callback runs. *)
TimerFires ==
  /\ AnyDue(timers)
  /\ LET k == NextTimer(timers)
     IN /\ timers' = Splice(timers, k)
        /\ IF timers[k].kind = "revert"
           THEN background' = "sky" /\ UNCHANGED flashLights
           ELSE flashLights' = Dark /\ UNCHANGED background
  /\ UNCHANGED <<controls, session, cloudVars, clockVars, rainVars, activeBolts,
                 shakeIntensity, quiet, probe>>

----------------------------------------------------------------------------
(* Construction: the effect body, lines 18-867.  The ten initial clouds    *)
(* are created at the constructor's humidity of 50; the model gives all    *)
(* ten the same Math.random() draws d.                                     *)

NoProbe == [fn |-> "none"]

RECURSIVE InitialCloudList(_, _)
InitialCloudList(n, d) ==
  IF n = 0 THEN <<>>
  ELSE Append(InitialCloudList(n - 1, d), createCloud(50, d, n))

Construct(ctrl, d) ==
  /\ controls = ctrl
  /\ session = "running"
  /\ time = 0
  /\ humidity = 50
  /\ evaporationRate = 10
  /\ clouds = InitialCloudList(InitialClouds, d)
  /\ nextId = InitialClouds + 1
  /\ deltaTime = 0
  /\ frame = 0
  /\ wall = 0
  /\ rainSystems = <<>>
  /\ spawnLog = <<>>
  /\ activeBolts = <<>>
  /\ shakeIntensity = 0
  /\ flashLights = Dark
  /\ background = "sky"
  /\ timers = <<>>
  /\ quiet = 0
  /\ probe = NoProbe

(* The draws of createCloud the model explores: the fields the claims do   *)
(* not read keep one value.                                                *)
Draw(type, cap, maxAge, moisture) ==
  [ type |-> type, cap |-> cap, maxAge |-> maxAge, moisture |-> moisture,
    x |-> 5000, y |-> 2500, z |-> 5000, speed |-> 0, growth |-> 5000, baseScale |-> 5000 ]

InitialDraws == { Draw(5000, 0, 0, 4000) }

CloudDraws ==
  { Draw(t, c, a, m) : t \in {5000, 6500, 7500}, c \in {5000, 7500},
                       a \in {0, 5000}, m \in {0, 8000} }

EvaporationRates == {1, 5, 30}

(* Wall-clock time between two frames, in 1/100 s. *)
CloudElapsed == {0, 5000, 15000, 70000}

SpawnRands == {0, 9999}

----------------------------------------------------------------------------
(* animate, lines 872-889: the frame's deltaTime, the environment and      *)
(* cloudSystem.update(deltaTime).  solo: the spawn draw is explored only   *)
(* while the collection is empty; cap bounds the objects created.          *)

FrameDelta(w) == (w * controls.simulationSpeed) \div 10

CloudStep(w, s, r, d) ==
  LET dt == FrameDelta(w)
      t == AdvanceTime(time, s)
      h == Environment(t)
      evap == controls.evaporationRate
  IN /\ time' = t
     /\ humidity' = h
     /\ evaporationRate' = evap
     /\ clouds' = CloudSystem_update(clouds, dt, h, evap, r, d, nextId)
     /\ nextId' = IF Spawns(clouds, h, r) THEN nextId + 1 ELSE nextId
     /\ deltaTime' = dt

CloudFrame(elapsed, steps, rands, draws, solo, cap) ==
  \E w \in elapsed, s \in steps, r \in rands :
    /\ IF Spawns(clouds, Environment(AdvanceTime(time, s)), r)
       THEN /\ nextId <= cap
            /\ solo => clouds = <<>>
            /\ \E d \in draws : CloudStep(w, s, r, d)
       ELSE CloudStep(w, s, r, Draw(0, 0, 0, 0))
    /\ UNCHANGED <<controls, session, clockVars, rainVars, boltVars, probe>>

(* One cloud at a time, every draw of createCloud. *)
InitCloud ==
  \E e \in EvaporationRates, d \in InitialDraws :
    Construct([evaporationRate |-> e, simulationSpeed |-> 10], d)

UpdateClouds == CloudFrame(CloudElapsed, {0, 1}, SpawnRands, CloudDraws, TRUE, MaxCreated)

NextCloud == UpdateClouds

SpecCloud == InitCloud /\ [][NextCloud]_vars

(* The population: every cloud with the same draws, the oscillator in its  *)
(* first band, up to MaxPopulation objects.                                *)
PopulationElapsed == {0, 10000, 70000}

InitPopulation ==
  \E d \in InitialDraws :
    Construct([evaporationRate |-> 10, simulationSpeed |-> 10], d)

UpdatePopulation ==
  CloudFrame(PopulationElapsed, {0}, SpawnRands, InitialDraws, FALSE, MaxPopulation)

NextPopulation == UpdatePopulation

SpecPopulation == InitPopulation /\ [][NextPopulation]_vars

----------------------------------------------------------------------------
(* Claims about the cloud lifecycle *)

CloudSet == {clouds[i] : i \in 1..Len(clouds)}

(* C1: every cloud's moisture is within [0, 1] after every update, for     *)
(* every sequence of frame times, humidity and evaporation rate.           *)
C1_MoistureInRange ==
  \A c \in CloudSet : 0 <= c.moisture /\ c.moisture <= One

(* C2: updateCloud returns true exactly when age >= maxAge after adding    *)
(* deltaTime, and update removes exactly those clouds: no cloud with       *)
(* age >= maxAge is left in the collection and no younger one is removed.  *)
C2_RemovedExactlyAtMaxAge ==
  [][ /\ \A c \in CloudSet :
           /\ updateCloud(c, deltaTime', humidity', evaporationRate').remove
                <=> (c.age + deltaTime' >= c.maxAge)
           /\ (c.id \notin Ids(clouds')) <=> (c.age + deltaTime' >= c.maxAge)
      /\ \A i \in 1..Len(clouds') : clouds'[i].age < clouds'[i].maxAge ]_vars

(* C2 witness: an update has removed the first cloud and kept others. *)
C2_Witness == clouds # <<>> /\ 1 \notin Ids(clouds) /\ deltaTime > 0

StageRank(stage) ==
  IF stage = "growing" THEN 0 ELSE IF stage = "mature" THEN 1 ELSE 2

(* C3: over any sequence of updates a cloud's stage never goes backward.   *)
C3_StageNeverGoesBack ==
  [][ \A c \in CloudSet : \A i \in 1..Len(clouds') :
        clouds'[i].id = c.id => StageRank(clouds'[i].stage) >= StageRank(c.stage) ]_vars

(* C3 witness: a cloud that went through the stages to dissipating, and    *)
(* was updated again with a frame time of zero.                            *)
C3_Witness ==
  \E c \in CloudSet : c.stage = "dissipating" /\ c.age > 0 /\ deltaTime = 0

(* C8: a mature cloud is precipitating exactly when it can precipitate,    *)
(* the moisture it had before the call exceeds its threshold and the       *)
(* humidity exceeds 60; its intensity is then (moisture - threshold) /     *)
(* (1 - threshold) of that same moisture, to the model's resolution.       *)
C8_MatureGate ==
  [][ \A c \in CloudSet : \A i \in 1..Len(clouds') :
        (clouds'[i].id = c.id /\ clouds'[i].stage = "mature") =>
          LET post == clouds'[i]
              gate == /\ c.canPrecipitate
                      /\ c.moisture > c.precipitationThreshold
                      /\ humidity' > 60
              err == (c.moisture - c.precipitationThreshold) * One
                       - post.precipitationIntensity * (One - c.precipitationThreshold)
          IN /\ post.precipitating = gate
             /\ gate => (0 <= err /\ err < One - c.precipitationThreshold) ]_vars

(* C8 witness: a mature cumulonimbus at humidity 80 whose intensity is     *)
(* 0.75, the value for a moisture of 0.9.                                  *)
C8_Witness ==
  \E c \in CloudSet :
    /\ c.type = "cumulonimbus" /\ c.stage = "mature" /\ humidity = 80
    /\ c.precipitating /\ c.precipitationIntensity = 7500

(* C10: the collection never holds more than 18 clouds; an update creates  *)
(* at most one cloud, and none when 18 are present.                        *)
C10_PopulationBound ==
  /\ [](Len(clouds) <= maxClouds)
  /\ [][ /\ Cardinality(Ids(clouds') \ Ids(clouds)) <= 1
         /\ Len(clouds) >= maxClouds => Ids(clouds') \subseteq Ids(clouds) ]_vars

(* C10 witness: 18 clouds are present, so that the next updates run with   *)
(* the collection full, whatever their spawn draw.                         *)
C10_Witness == Len(clouds) = maxClouds

----------------------------------------------------------------------------
(* PrecipitationSystem.update on its own: one precipitating cumulonimbus   *)
(* low above the ground, and as initial pool either none or a pool at      *)
(* capacity.  The pool at capacity is given, not grown: with the spawn     *)
(* heights and fall speeds of lines 637-641 a pool empties faster than     *)
(* floor(8 * intensity) spawns a frame fill it.                            *)

RainDraw(hit, y, v) == [hit |-> hit, x |-> 5000, y |-> y, z |-> 5000, v |-> v]

RainDraws == { RainDraw(9999, 0, 0), RainDraw(0, 1000, 0), RainDraw(0, 2500, 5000) }

StormCloud(moisture) ==
  [ createCloud(80, [Draw(7500, 0, 0, 0) EXCEPT !.y = 0], InitialClouds + 1)
      EXCEPT !.age = 10000, !.stage = "mature", !.scale = 1000,
             !.moisture = moisture, !.precipitating = TRUE,
             !.precipitationIntensity = ((moisture - 6000) * One) \div (One - 6000) ]

FullRainSystem ==
  [ activeParticles |-> maxParticlesPerCloud,
    positions |-> [i \in 1..maxParticlesPerCloud |->
                     <<i, IF i % 3 = 0 THEN 400 ELSE 1500 + 100 * (i % 7), 0>>],
    velocities |-> [i \in 1..maxParticlesPerCloud |-> 0 - 600 - (i % 2) * 100] ]

InitRain ==
  \E m \in {6500, 7000}, full \in BOOLEAN :
    /\ controls = [evaporationRate |-> 10, simulationSpeed |-> 10]
    /\ session = "running"
    /\ time = 3
    /\ humidity = 80
    /\ evaporationRate = 10
    /\ clouds = <<StormCloud(m)>>
    /\ nextId = InitialClouds + 2
    /\ deltaTime = 0
    /\ frame = 0
    /\ wall = 0
    /\ rainSystems = IF full THEN (InitialClouds + 1 :> FullRainSystem) ELSE <<>>
    /\ spawnLog = <<>>
    /\ activeBolts = <<>>
    /\ shakeIntensity = 0
    /\ flashLights = Dark
    /\ background = "sky"
    /\ timers = <<>>
    /\ quiet = 0
    /\ probe = NoProbe

UpdateRainSystems ==
  \E d1 \in RainDraws, d2 \in {RainDraw(0, 1000, 0)} :
    /\ rainSystems' = PrecipitationSystem_update(rainSystems,
                        getPrecipitatingClouds(clouds), <<d1, d2>>)
    /\ spawnLog' = SpawnLogOf(rainSystems, getPrecipitatingClouds(clouds), <<d1, d2>>)
    /\ UNCHANGED <<controls, session, cloudVars, clockVars, boltVars, probe>>

NextRain == UpdateRainSystems

SpecRain == InitRain /\ [][NextRain]_vars

(* C4: every rain pool holds between 0 and 500 active particles, also      *)
(* between the spawn loop and the compaction; a spawn attempt on a pool of *)
(* 500 leaves it at 500.                                                   *)
C4_PoolWithinCapacity ==
  /\ \A id \in DOMAIN rainSystems :
       /\ 0 <= rainSystems[id].activeParticles
       /\ rainSystems[id].activeParticles <= maxParticlesPerCloud
  /\ \A id \in DOMAIN spawnLog :
       /\ spawnLog[id].afterSpawn <= maxParticlesPerCloud
       /\ spawnLog[id].before = maxParticlesPerCloud
            => spawnLog[id].afterSpawn = maxParticlesPerCloud

(* C4 witness: an update made spawn attempts on a pool that held 500. *)
C4_Witness ==
  \E id \in DOMAIN spawnLog :
    /\ spawnLog[id].before = maxParticlesPerCloud
    /\ spawnLog[id].attempts > 0
    /\ spawnLog[id].afterSpawn = maxParticlesPerCloud

Particles(pool) ==
  [i \in 1..pool.activeParticles |-> <<pool.positions[i], pool.velocities[i]>>]

Fallen(particles) ==
  [i \in 1..Len(particles) |->
     << <<particles[i][1][1], particles[i][1][2] + particles[i][2], particles[i][1][3]>>,
        particles[i][2] >>]

AboveGround(particle) == particle[1][2] > 0

(* C5: after an update the pool starts with the particles it held before   *)
(* whose new height is above 0, in their previous order, each with its own *)
(* position and fall speed; what follows them was spawned in this update.  *)
C5_CompactionKeepsOrder ==
  [][ \A id \in (DOMAIN rainSystems) \cap (DOMAIN rainSystems') :
        LET kept == SelectSeq(Fallen(Particles(rainSystems[id])), AboveGround)
            after == Particles(rainSystems'[id])
        IN /\ Len(kept) <= Len(after)
           /\ SubSeq(after, 1, Len(kept)) = kept
           /\ Len(after) - Len(kept) <= spawnLog'[id].attempts ]_vars

(* C5 witness: the update of the pool of 500 dropped every third particle  *)
(* and moved the others down: the fourth particle is in the third slot.    *)
C5_Witness ==
  \E id \in DOMAIN rainSystems :
    /\ id \in DOMAIN spawnLog
    /\ spawnLog[id].before = maxParticlesPerCloud
    /\ rainSystems[id].activeParticles = 334
    /\ rainSystems[id].positions[3][1] = 4
    /\ rainSystems[id].velocities[3] = 0 - 600

----------------------------------------------------------------------------
(* LightningSystem.update and the deferred callbacks on their own: one     *)
(* mature cumulonimbus at full moisture and intensity is the storm cloud   *)
(* of every frame.  Wall-clock time passes in steps; a callback that is    *)
(* due runs before more time passes, a frame may come before or after it.  *)

FlashDraws == { <<0, 5000, 9999>> }

BoltWaits == {5}

InitBolt ==
  /\ controls = [evaporationRate |-> 10, simulationSpeed |-> 10]
  /\ session = "running"
  /\ time = 3
  /\ humidity = 80
  /\ evaporationRate = 10
  /\ clouds = <<StormCloud(One)>>
  /\ nextId = InitialClouds + 2
  /\ deltaTime = 0
  /\ frame = 0
  /\ wall = 0
  /\ rainSystems = <<>>
  /\ spawnLog = <<>>
  /\ activeBolts = <<>>
  /\ shakeIntensity = 0
  /\ flashLights = Dark
  /\ background = "sky"
  /\ timers = <<>>
  /\ quiet = 0
  /\ probe = NoProbe

(* Time passes between two frames. *)
Wait(steps, cap) ==
  \E w \in steps :
    /\ ~AnyDue(timers)
    /\ \A k \in 1..Len(timers) : timers[k].left >= w
    /\ wall + w <= cap
    /\ wall' = wall + w
    /\ timers' = AgeTimers(timers, w)
    /\ UNCHANGED <<controls, session, cloudVars, frame, rainVars, activeBolts,
                   shakeIntensity, flashLights, background, quiet, probe>>

(* animate, lines 872-874 and 893, for the precipitating clouds storm. *)
LightningStep(storm, dt, strikes, flash) ==
  LET after == LightningSystem_update(Lightning, storm, dt, strikes, flash)
  IN /\ Len(activeBolts) + Cardinality(Struck(storm, strikes)) <= MaxBolts
     /\ activeBolts' = after.activeBolts
     /\ shakeIntensity' = after.shakeIntensity
     /\ flashLights' = after.flashLights
     /\ background' = after.background
     /\ timers' = after.timers
     /\ quiet' = IF Struck(storm, strikes) # {} THEN 0
                 ELSE Min(quiet + dt, MaxQuiet)

UpdateLightning ==
  \E strikes \in SUBSET Ids(clouds), flash \in FlashDraws :
    /\ LightningStep(getPrecipitatingClouds(clouds), FrameDelta(wall), strikes, flash)
    /\ deltaTime' = FrameDelta(wall)
    /\ wall' = 0
    /\ UNCHANGED <<controls, session, time, humidity, evaporationRate, clouds, nextId,
                   frame, rainVars, probe>>

WaitBolt == Wait(BoltWaits, MaxWall)

NextBolt == WaitBolt \/ UpdateLightning \/ TimerFires

SpecBolt == InitBolt /\ [][NextBolt]_vars

(* C6 as stated: when the updates since the last trigger have deltaTime    *)
(* values that sum to 0.2 s (or more), no bolt is left.                    *)
C6_NoBoltAfterFifthOfSecond == quiet >= BoltLifetime => activeBolts = <<>>

(* C6: when the updates since the last trigger have deltaTime values that  *)
(* sum to more than 0.2 s, no bolt is left, whatever the ages of the bolts *)
(* were at the start of those updates.                                     *)
C6_NoBoltAfterQuiet == quiet > BoltLifetime => activeBolts = <<>>

(* C6 witness: lightning has struck, and the updates since have summed to  *)
(* more than 0.2 s and removed the bolts.                                  *)
C6_Witness ==
  quiet > BoltLifetime /\ activeBolts = <<>> /\ shakeIntensity > 0

----------------------------------------------------------------------------
(* determineCloudType on its own, over the humidity and the draw. *)

TypeHumidities == {10, 50, 60, 61, 65, 70, 71, 75, 76, 80}

TypeRands == {0, 2500, 5000, 5001, 6000, 6001, 6500, 7000, 7001, 7500, 9999}

InitType == InitPopulation

DetermineType ==
  \E h \in TypeHumidities, rand \in TypeRands :
    /\ probe' = [ fn |-> "determineCloudType", humidity |-> h, rand |-> rand,
                  result |-> determineCloudType(h, rand) ]
    /\ UNCHANGED <<controls, session, cloudVars, clockVars, rainVars, boltVars>>

NextType == DetermineType

SpecType == InitType /\ [][NextType]_vars

(* C7: determineCloudType gives the type of the first rule that matches,   *)
(* in the order cumulonimbus (humidity > 75, draw > 0.7), cumulus          *)
(* congestus (> 70, > 0.6), cumulus mediocris (> 60, > 0.5), stratocumulus *)
(* (draw > 0.7), else cumulus humilis; (80, 0.75) gives cumulonimbus and   *)
(* (10, 0.5) gives cumulus humilis.                                        *)
C7_FirstMatchCascade ==
  probe.fn = "determineCloudType" =>
    LET h == probe.humidity
        r == probe.rand
        r1 == h > 75 /\ r > 7000
        r2 == h > 70 /\ r > 6000
        r3 == h > 60 /\ r > 5000
        r4 == r > 7000
    IN /\ r1 => probe.result = "cumulonimbus"
       /\ (~r1 /\ r2) => probe.result = "cumulus_congestus"
       /\ (~r1 /\ ~r2 /\ r3) => probe.result = "cumulus_mediocris"
       /\ (~r1 /\ ~r2 /\ ~r3 /\ r4) => probe.result = "stratocumulus"
       /\ (~r1 /\ ~r2 /\ ~r3 /\ ~r4) => probe.result = "cumulus_humilis"
       /\ (h = 80 /\ r = 7500) => probe.result = "cumulonimbus"
       /\ (h = 10 /\ r = 5000) => probe.result = "cumulus_humilis"

(* C7 witness: humidity 80 and a draw of 0.75, which every rule but the    *)
(* last matches, gave cumulonimbus.                                        *)
C7_Witness ==
  /\ probe.fn = "determineCloudType"
  /\ probe.humidity = 80 /\ probe.rand = 7500
  /\ probe.result = "cumulonimbus"

----------------------------------------------------------------------------
(* The whole frame loop: animate, lines 869-942, the wall clock between    *)
(* frames and the deferred callbacks.  The statistics and the rendering    *)
(* are not modelled.  sin(time * floatSpeed + i) * 2 is taken from         *)
(* BobCycle, a sine sampled at the band of the oscillator, the same for    *)
(* all clouds.                                                             *)

BobCycle == <<0, 1176, 1902, 1902, 1176, 0, -1176, -1902, -1902, -1176>>

StormDraws == { [Draw(7500, 0, 0, 8000) EXCEPT !.speed = 5000] }

FrameRainDraws == { <<RainDraw(0, 1000, 0)>> }

FrameWaits == {5}

LongWaits == {7000}

(* Lines 896-905. *)
AnimateCloud(c, bob) ==
  LET x == c.x + ((c.speed * controls.simulationSpeed) \div 10)
  IN [c EXCEPT !.x = IF x > WrapX THEN 0 - WrapX ELSE x,
               !.y = c.initialY + bob]

AnimateClouds(cs, bob) == [i \in 1..Len(cs) |-> AnimateCloud(cs[i], bob)]

Init ==
  \E e \in {1, 10}, d \in InitialDraws :
    Construct([evaporationRate |-> e, simulationSpeed |-> 10], d)

Animate ==
  /\ frame < MaxFrames
  /\ \E r \in SpawnRands, d \in StormDraws, strikes \in {{}, 1..nextId},
        flash \in FlashDraws, ds \in FrameRainDraws :
       LET dt == FrameDelta(wall)
           t == AdvanceTime(time, 1)
           h == Environment(t)
           bob == BobCycle[t + 1]
           evap == controls.evaporationRate
           updated == CloudSystem_update(clouds, dt, h, evap, r, d, nextId)
           precipClouds == getPrecipitatingClouds(updated)
       IN /\ deltaTime' = dt
          /\ wall' = 0
          /\ time' = t
          /\ humidity' = h
          /\ evaporationRate' = evap
          /\ nextId' = IF Spawns(clouds, h, r) THEN nextId + 1 ELSE nextId
          /\ rainSystems' = PrecipitationSystem_update(rainSystems, precipClouds, ds)
          /\ spawnLog' = SpawnLogOf(rainSystems, precipClouds, ds)
          /\ LightningStep(precipClouds, dt, strikes, flash)
          /\ clouds' = AnimateClouds(updated, bob)
          /\ frame' = frame + 1
  /\ UNCHANGED <<controls, session, probe>>

WaitFrame == Wait(FrameWaits, 5) \/ Wait(LongWaits, 7000)

Disposed(objects) == [i \in 1..Len(objects) |-> [objects[i] EXCEPT !.disposed = @ + 1]]

(* The effect cleanup, lines 956-972: the primitives of the clouds, the    *)
(* rain pools and the bolts are disposed; the map of the pools is cleared, *)
(* the cloud and bolt collections are not.  No cancelAnimationFrame and no *)
(* clearTimeout: animate and the pending callbacks keep running.           *)
Teardown ==
  /\ session = "running"
  /\ session' = "tornDown"
  /\ clouds' = Disposed(clouds)
  /\ rainSystems' = <<>>
  /\ activeBolts' = Disposed(activeBolts)
  /\ UNCHANGED <<controls, time, humidity, evaporationRate, nextId, deltaTime,
                 clockVars, spawnLog, shakeIntensity, flashLights, background,
                 timers, quiet, probe>>

Next == Animate \/ WaitFrame \/ TimerFires \/ Teardown

Spec == Init /\ [][Next]_vars

(* C9: a frame whose deltaTime is 0 leaves the moisture, the stage and the *)
(* position of every cloud that existed before it unchanged.               *)
C9_ZeroFrameChangesNoCloud ==
  [][ (frame' = frame + 1 /\ deltaTime' = 0) =>
        \A c \in CloudSet : \A i \in 1..Len(clouds') :
          clouds'[i].id = c.id =>
            /\ clouds'[i].moisture = c.moisture
            /\ clouds'[i].stage = c.stage
            /\ clouds'[i].x = c.x
            /\ clouds'[i].y = c.y
            /\ clouds'[i].z = c.z ]_vars

----------------------------------------------------------------------------
(* PrecipitationSystem.update(P) on its own, for every list P made of two  *)
(* storm clouds: probe records the clouds of P and the owners of the pools *)
(* the call found that are not in P.                                       *)

SecondStormCloud(moisture) == [StormCloud(moisture) EXCEPT !.id = InitialClouds + 2]

PoolLists ==
  { <<>>, <<StormCloud(6500)>>, <<SecondStormCloud(7000)>>,
    <<StormCloud(6500), SecondStormCloud(7000)>> }

PoolRainDraws == { <<RainDraw(0, 1000, 0)>>, <<RainDraw(0, 2500, 0)>> }

InitPools ==
  /\ controls = [evaporationRate |-> 10, simulationSpeed |-> 10]
  /\ session = "running"
  /\ time = 3
  /\ humidity = 80
  /\ evaporationRate = 10
  /\ clouds = <<StormCloud(6500), SecondStormCloud(7000)>>
  /\ nextId = InitialClouds + 3
  /\ deltaTime = 0
  /\ frame = 0
  /\ wall = 0
  /\ rainSystems = <<>>
  /\ spawnLog = <<>>
  /\ activeBolts = <<>>
  /\ shakeIntensity = 0
  /\ flashLights = Dark
  /\ background = "sky"
  /\ timers = <<>>
  /\ quiet = 0
  /\ probe = NoProbe

UpdatePools ==
  \E P \in PoolLists, ds \in PoolRainDraws :
    /\ rainSystems' = PrecipitationSystem_update(rainSystems, P, ds)
    /\ spawnLog' = SpawnLogOf(rainSystems, P, ds)
    /\ probe' = [ fn |-> "PrecipitationSystem.update", precipitating |-> Ids(P),
                  stopped |-> (DOMAIN rainSystems) \ Ids(P) ]
    /\ UNCHANGED <<controls, session, cloudVars, clockVars, boltVars>>

NextPools == UpdatePools

SpecPools == InitPools /\ [][NextPools]_vars

(* C11: after every update(P) the clouds that own a rain pool are exactly  *)
(* the clouds of P; a cloud that owned no pool before the update got a new *)
(* one, empty before the spawn loop, and the pool of a cloud that is not   *)
(* in P is gone after that same update.                                    *)
C11_PoolsOfPrecipitatingClouds ==
  /\ [](probe.fn = "PrecipitationSystem.update"
          => DOMAIN rainSystems = probe.precipitating)
  /\ [][ /\ \A id \in (DOMAIN rainSystems') \ (DOMAIN rainSystems) :
              spawnLog'[id].before = 0
         /\ \A id \in DOMAIN rainSystems :
              id \notin probe'.precipitating => id \notin DOMAIN rainSystems' ]_vars

(* C11 witness: the update found the pool of a cloud that is not in P, and *)
(* another cloud of P rains into a pool that holds particles.              *)
C11_Witness ==
  /\ probe.fn = "PrecipitationSystem.update"
  /\ probe.stopped # {}
  /\ \E id \in DOMAIN rainSystems : rainSystems[id].activeParticles > 0

(* C12: once the session is torn down, every cloud and every bolt it      *)
(* still holds has been disposed exactly once and no rain pool is left,    *)
(* and the session performs no further update: its clouds, pools and bolts *)
(* stay as they are, it creates no object and runs no frame.               *)
C12_TeardownDisposesOnceAndStops ==
  /\ [](session = "tornDown" =>
          /\ \A c \in CloudSet : c.disposed = 1
          /\ \A i \in 1..Len(activeBolts) : activeBolts[i].disposed = 1
          /\ rainSystems = <<>>)
  /\ [][ session = "tornDown" =>
           /\ clouds' = clouds
           /\ rainSystems' = rainSystems
           /\ activeBolts' = activeBolts
           /\ nextId' = nextId
           /\ frame' = frame ]_vars

(* C13: a deferred callback of trigger that runs after the teardown of the *)
(* session changes neither the scene background nor a flash light.         *)
C13_CallbackAfterTeardownIsNoOp ==
  [][ (session = "tornDown" /\ session' = "tornDown" /\ Len(timers') < Len(timers)) =>
        /\ background' = background
        /\ flashLights' = flashLights ]_vars

(* C14: a frame whose deltaTime is 0 moves no rain particle: every         *)
(* particle a pool held before the frame is in the pool after it, at the   *)
(* same position.  (The puffs of a cloud are not part of the model.)       *)
C14_ZeroFrameMovesNoParticle ==
  [][ (frame' = frame + 1 /\ deltaTime' = 0) =>
        \A id \in (DOMAIN rainSystems) \cap (DOMAIN rainSystems') :
          \A i \in 1..rainSystems[id].activeParticles :
            \E j \in 1..rainSystems'[id].activeParticles :
              rainSystems'[id].positions[j] = rainSystems[id].positions[i] ]_vars

----------------------------------------------------------------------------
(* The configuration is handed in by the hosting layer (controls, lines    *)
(* 13-16); animate copies controls.evaporationRate into the cloud system   *)
(* as it is (line 886).  A specification whose configured rate is drawn    *)
(* from valid and negative values, in tenths.                              *)
ConfigRates == {-10, 10}

ConfigElapsed == {0, 5000, 70000}

InitConfig ==
  \E e \in ConfigRates, d \in InitialDraws :
    Construct([evaporationRate |-> e, simulationSpeed |-> 10], d)

UpdateConfigured ==
  CloudFrame(ConfigElapsed, {0, 1}, SpawnRands, CloudDraws, TRUE, MaxCreated)

NextConfig == UpdateConfigured

SpecConfig == InitConfig /\ [][NextConfig]_vars

----------------------------------------------------------------------------
(* LightningSystem.update over a sky of two clouds: each is a mature or a  *)
(* dissipating cloud as updateCloud leaves it at humidity 80.  The         *)
(* potentials: cumulonimbus 0.4 and 0.767, congestus 0.713 and 1.0,        *)
(* mediocris 1.0, and a dissipating cumulonimbus that rained at 1.0.       *)
(* The skies hold none, one or two clouds above their threshold.           *)

SkyCloud(typeRand, moisture, age, id) ==
  LET made == createCloud(80, Draw(typeRand, 7500, 0, 0), id)
      rained == updateCloud([made EXCEPT !.age = 10000, !.stage = "mature",
                                         !.scale = 1000, !.moisture = moisture],
                            0, 80, 10).cloud
  IN updateCloud([rained EXCEPT !.age = age], 0, 80, 10).cloud

Skies ==
  LET first(typeRand, moisture, age) == SkyCloud(typeRand, moisture, age, InitialClouds + 1)
      second(typeRand, moisture, age) == SkyCloud(typeRand, moisture, age, InitialClouds + 2)
  IN { <<first(7500, 8000, 10000), second(6500, 9300, 10000)>>,
       <<first(7500, 9300, 10000), second(5500, One, 10000)>>,
       <<first(5500, One, 10000), second(7500, One, 25000)>>,
       <<first(7500, 9300, 10000), second(6500, One, 10000)>> }

InitStorm ==
  \E sky \in Skies :
    /\ controls = [evaporationRate |-> 10, simulationSpeed |-> 10]
    /\ session = "running"
    /\ time = 3
    /\ humidity = 80
    /\ evaporationRate = 10
    /\ clouds = sky
    /\ nextId = InitialClouds + 3
    /\ deltaTime = 0
    /\ frame = 0
    /\ wall = 0
    /\ rainSystems = <<>>
    /\ spawnLog = <<>>
    /\ activeBolts = <<>>
    /\ shakeIntensity = 0
    /\ flashLights = Dark
    /\ background = "sky"
    /\ timers = <<>>
    /\ quiet = 0
    /\ probe = NoProbe

NextStorm == WaitBolt \/ UpdateLightning \/ TimerFires

SpecStorm == InitStorm /\ [][NextStorm]_vars

(* The clouds the statement allows to cause lightning. *)
StormCapable ==
  { c \in CloudSet :
      /\ c.precipitating
      /\ \/ c.type = "cumulonimbus"
            /\ c.moisture * c.precipitationIntensity > 7000 * One
         \/ c.type = "cumulus_congestus"
            /\ c.moisture * c.precipitationIntensity > 8000 * One }

(* C16: an update of the lightning system triggers at most one bolt for    *)
(* each precipitating cumulonimbus with moisture * intensity > 0.7 and     *)
(* each precipitating congestus with moisture * intensity > 0.8 (a trigger *)
(* registers two callbacks), and with no such cloud it adds no bolt, sets  *)
(* no flash, leaves the background and does not raise the camera shake.    *)
C16_OnlyStormCloudsStrike ==
  [][ deltaTime' = FrameDelta(wall) /\ wall' = 0 =>
        /\ Len(timers') - Len(timers) <= 2 * Cardinality(StormCapable)
        /\ StormCapable = {} =>
             /\ Len(activeBolts') <= Len(activeBolts)
             /\ flashLights' = flashLights
             /\ background' = background
             /\ shakeIntensity' <= shakeIntensity ]_vars

(* C16 witness: of two clouds drawn for lightning one was allowed to       *)
(* strike and has struck once; the other is not in StormCapable.           *)
C16_Witness ==
  /\ Cardinality(StormCapable) = 1
  /\ Len(activeBolts) = 1
  /\ shakeIntensity = ShakeStart
  /\ background = "white"
  /\ \E c \in CloudSet : c.precipitating /\ c \notin StormCapable

----------------------------------------------------------------------------
(* C17: every cloud has the capability of its type (cumulonimbus capable   *)
(* with threshold 0.6, congestus capable with 0.7, mediocris threshold     *)
(* 0.8, humilis and stratocumulus not capable), no update changes the      *)
(* type, the capability or the threshold of a cloud, and no humilis or     *)
(* stratocumulus is precipitating.                                         *)
C17_CapabilityFixedByType ==
  /\ [](\A c \in CloudSet :
          /\ c.type = "cumulonimbus" => c.canPrecipitate /\ c.precipitationThreshold = 6000
          /\ c.type = "cumulus_congestus" => c.canPrecipitate /\ c.precipitationThreshold = 7000
          /\ c.type = "cumulus_mediocris" => c.precipitationThreshold = 8000
          /\ c.type \in {"cumulus_humilis", "stratocumulus"} =>
               ~c.canPrecipitate /\ ~c.precipitating)
  /\ [][ \A c \in CloudSet : \A i \in 1..Len(clouds') :
           clouds'[i].id = c.id =>
             /\ clouds'[i].type = c.type
             /\ clouds'[i].canPrecipitate = c.canPrecipitate
             /\ clouds'[i].precipitationThreshold = c.precipitationThreshold ]_vars

(* C17 witness: a mature stratocumulus with moisture above 0.8 under a     *)
(* humidity above 60 has been updated and is not precipitating.            *)
C17_Witness ==
  \E c \in CloudSet :
    /\ c.type = "stratocumulus"
    /\ c.stage = "mature"
    /\ c.moisture > 8000
    /\ humidity > 60
    /\ deltaTime > 0
    /\ ~c.precipitating

(* C18: after every update a cloud that is not precipitating has           *)
(* precipitationIntensity 0, in the dissipating stage too.                 *)
C18_IntensityZeroWhenDry ==
  \A c \in CloudSet : ~c.precipitating => c.precipitationIntensity = 0

(* C19: after every update the precipitationIntensity of every cloud is    *)
(* within [0, 1], for every sequence of frame times.                       *)
C19_IntensityInRange ==
  \A c \in CloudSet : 0 <= c.precipitationIntensity /\ c.precipitationIntensity <= One

----------------------------------------------------------------------------
(* C20 as stated: after an update the particles whose new height is above  *)
(* 0 have been compacted out: none of the pool is above 0, and the pool    *)
(* is smaller than it was after the spawn loop by at least the number of   *)
(* earlier particles that are above 0.                                     *)
C20_AboveGroundCompactedOut ==
  [][ \A id \in (DOMAIN rainSystems) \cap (DOMAIN rainSystems') :
        LET above == SelectSeq(Fallen(Particles(rainSystems[id])), AboveGround)
            after == Particles(rainSystems'[id])
        IN /\ \A j \in 1..Len(after) : ~AboveGround(after[j])
           /\ Len(after) <= spawnLog'[id].afterSpawn - Len(above) ]_vars

(* C20: after an update the particles whose new height is at or below 0    *)
(* have been compacted out and the ones above 0 are kept: no particle of   *)
(* the pool is at or below 0, the earlier particles that are above 0 are   *)
(* all in the pool, and the others in it are at most the particles spawned *)
(* in this update, so the earlier particles shrink by the number at or     *)
(* below 0.                                                                *)
C20_GroundedCompactedOut ==
  [][ \A id \in (DOMAIN rainSystems) \cap (DOMAIN rainSystems') :
        LET fallen == Fallen(Particles(rainSystems[id]))
            grounded == SelectSeq(fallen, LAMBDA p : ~AboveGround(p))
            after == Particles(rainSystems'[id])
        IN /\ \A j \in 1..Len(after) : after[j][1][2] > 0
           /\ \A i \in 1..Len(fallen) :
                AboveGround(fallen[i]) => \E j \in 1..Len(after) : after[j] = fallen[i]
           /\ Len(after) - (Len(fallen) - Len(grounded))
                <= spawnLog'[id].afterSpawn - spawnLog'[id].before
           /\ Len(after) <= spawnLog'[id].afterSpawn - Len(grounded) ]_vars

(* C20 witness: an update took particles out of a pool and left others,    *)
(* all of them above 0.                                                    *)
C20_Witness ==
  \E id \in (DOMAIN rainSystems) \cap (DOMAIN spawnLog) :
    /\ rainSystems[id].activeParticles > 0
    /\ rainSystems[id].activeParticles < spawnLog[id].afterSpawn
    /\ \A j \in 1..rainSystems[id].activeParticles : rainSystems[id].positions[j][2] > 0

----------------------------------------------------------------------------
(* LightningSystem.createBranch(start, end, 0, 3), lines 698-725, as       *)
(* trigger calls it (line 747).  probe holds the call in progress: the     *)
(* stack of the recursion, a frame being the depth of the call and the     *)
(* index i of its loop; points, the number of points created so far (all   *)
(* of them end in the returned path: points.push(...subBranch)); rand, the *)
(* last draw of line 713, or -1 when the test depth < maxDepth failed and  *)
(* nothing was drawn.  The coordinates are not modelled.                   *)

maxDepth == 3

(* steps = 8 - depth * 2 on every level. *)
StepsFixed(depth) == 8

(* Line 700. *)
Steps(depth) == 8 - depth * 2

(* 0.3 - depth * 0.1 *)
BranchChance(depth) == 3000 - depth * 1000

(* Line 713. *)
SpawnsBranch(depth, rand) == depth < maxDepth /\ rand < BranchChance(depth)

BranchRands == {500, 1500, 2500, 3000}

Top(stack) == stack[Len(stack)]

Pop(stack) == SubSeq(stack, 1, Len(stack) - 1)

InitBranch ==
  /\ controls = [evaporationRate |-> 10, simulationSpeed |-> 10]
  /\ session = "running"
  /\ time = 3
  /\ humidity = 80
  /\ evaporationRate = 10
  /\ clouds = <<StormCloud(One)>>
  /\ nextId = InitialClouds + 2
  /\ deltaTime = 0
  /\ frame = 0
  /\ wall = 0
  /\ rainSystems = <<>>
  /\ spawnLog = <<>>
  /\ activeBolts = <<>>
  /\ shakeIntensity = 0
  /\ flashLights = Dark
  /\ background = "sky"
  /\ timers = <<>>
  /\ quiet = 0
  /\ probe = [ fn |-> "createBranch", stack |-> << [depth |-> 0, i |-> 1] >>,
               points |-> 1, rand |-> -1 ]

(* Lines 702-722: one iteration of the loop of the call on top of the      *)
(* stack; a sub-branch starts with a clone of its start point.             *)
BranchPoint ==
  /\ probe.stack # <<>>
  /\ LET f == Top(probe.stack)
         rest == Pop(probe.stack)
         next == [f EXCEPT !.i = @ + 1]
     IN /\ f.i <= Steps(f.depth)
        /\ \E r \in IF f.depth < maxDepth THEN BranchRands ELSE {-1} :
             probe' =
               IF SpawnsBranch(f.depth, r)
               THEN [probe EXCEPT
                       !.stack = rest \o << next, [depth |-> f.depth + 1, i |-> 1] >>,
                       !.points = @ + 2, !.rand = r]
               ELSE [probe EXCEPT
                       !.stack = Append(rest, next), !.points = @ + 1, !.rand = r]
  /\ UNCHANGED <<controls, session, cloudVars, clockVars, rainVars, boltVars>>

(* Line 724: the loop of the call on top of the stack is over. *)
BranchReturn ==
  /\ probe.stack # <<>>
  /\ Top(probe.stack).i > Steps(Top(probe.stack).depth)
  /\ probe' = [probe EXCEPT !.stack = Pop(@)]
  /\ UNCHANGED <<controls, session, cloudVars, clockVars, rainVars, boltVars>>

NextBranch == BranchPoint \/ BranchReturn

SpecBranch == InitBranch /\ [][NextBranch]_vars

(* The call is not suspended for ever: JavaScript runs it to completion. *)
SpecBranchFair == SpecBranch /\ WF_vars(NextBranch)

(* C21: createBranch(start, end, 0, 3) returns for every outcome of the    *)
(* draws; the recursion is never deeper than 3; a call at depth d runs     *)
(* 8, 6, 4, 2 loop steps for d = 0, 1, 2, 3; the path never has more than  *)
(* 881 points and the returned path has at least 9.                        *)
C21_BranchTerminatesBounded ==
  /\ [](/\ \A k \in 1..Len(probe.stack) : probe.stack[k].depth <= 3
        /\ probe.points <= 881
        /\ probe.stack = <<>> => probe.points >= 9)
  /\ [][ Len(probe'.stack) < Len(probe.stack) =>
           Top(probe.stack).i - 1 = <<8, 6, 4, 2>>[Top(probe.stack).depth + 1] ]_vars
  /\ <>(probe.stack = <<>>)

(* C21 witness: the call has returned the longest path, every draw having  *)
(* spawned a sub-branch down to depth 3.                                   *)
C21_Witness == probe.stack = <<>> /\ probe.points = 881

(* C22: a sub-branch is spawned only at an interior point of the segment   *)
(* being subdivided, never at its final point (i = steps), only at a depth *)
(* below maxDepth and only on a draw below 0.3 - depth * 0.1.              *)
C22_BranchOnlyAtInteriorPoints ==
  [][ Len(probe'.stack) > Len(probe.stack) =>
        LET f == Top(probe.stack)
        IN /\ f.i < <<8, 6, 4, 2>>[f.depth + 1]
           /\ f.depth < 3
           /\ probe'.rand < <<3000, 2000, 1000>>[f.depth + 1] ]_vars

----------------------------------------------------------------------------
(* C23: after every update a precipitating cloud is in the mature stage:   *)
(* no growing and no dissipating cloud is precipitating.                   *)
C23_PrecipitatingOnlyWhenMature ==
  \A c \in CloudSet : c.precipitating => c.stage = "mature"

(* C23 witness: a cloud that rained while mature has been updated into the *)
(* dissipating stage and is not precipitating.                             *)
C23_Witness ==
  \E c \in CloudSet :
    /\ c.stage = "dissipating"
    /\ c.canPrecipitate
    /\ c.moisture > c.precipitationThreshold
    /\ c.precipitationIntensity > 0
    /\ humidity > 60
    /\ ~c.precipitating

----------------------------------------------------------------------------
(* The frame loop over the life of a raining cloud: a mature cumulonimbus  *)
(* of maxAge 300 s at age 100 s, and frames 150 s or 250 s apart, so that  *)
(* the cloud is removed after a dissipating frame or straight from the     *)
(* mature stage.  The cloud is precipitating and has its rain pool.        *)

LifeWaits == {15000, 25000}

InitLife ==
  \E m \in {6500, One} :
    /\ controls = [evaporationRate |-> 10, simulationSpeed |-> 10]
    /\ session = "running"
    /\ time = 3
    /\ humidity = 80
    /\ evaporationRate = 10
    /\ clouds = <<StormCloud(m)>>
    /\ nextId = InitialClouds + 2
    /\ deltaTime = 0
    /\ frame = 0
    /\ wall = 0
    /\ rainSystems = [id \in {InitialClouds + 1} |-> NewRainSystem]
    /\ spawnLog = <<>>
    /\ activeBolts = <<>>
    /\ shakeIntensity = 0
    /\ flashLights = Dark
    /\ background = "sky"
    /\ timers = <<>>
    /\ quiet = 0
    /\ probe = NoProbe

WaitLife == Wait(FrameWaits, 5) \/ Wait(LifeWaits, 25000)

NextLife == Animate \/ WaitLife \/ TimerFires

SpecLife == InitLife /\ [][NextLife]_vars

(* C24: between frames every rain pool belongs to a cloud of the           *)
(* collection that is precipitating; a cloud that a frame removes is not   *)
(* precipitating after its last updateCloud call, and has no pool after    *)
(* the frame.                                                              *)
C24_PoolsOfLivingRainingClouds ==
  /\ [](\A id \in DOMAIN rainSystems :
          \E c \in CloudSet : c.id = id /\ c.precipitating)
  /\ [][ frame' = frame + 1 =>
           \A c \in CloudSet :
             c.id \notin Ids(clouds') =>
               /\ ~updateCloud(c, deltaTime', humidity', evaporationRate').cloud.precipitating
               /\ c.id \notin DOMAIN rainSystems' ]_vars

(* C24 witness: the first frame, 250 s after the construction, has removed *)
(* the raining cloud straight from the mature stage, and its pool with it. *)
C24_Witness ==
  /\ frame = 1
  /\ deltaTime = 25000
  /\ InitialClouds + 1 \notin Ids(clouds)
  /\ rainSystems = <<>>

----------------------------------------------------------------------------
(* C25: while the 150 ms callback of the latest trigger has not run, every *)
(* flash light has a non-zero intensity, and while its 50 ms callback has  *)
(* not run the background is white, also when the callbacks of an earlier  *)
(* trigger were pending at that trigger.                                   *)
C25_FlashLastsItsDelays ==
  /\ (\E k \in 1..Len(timers) : timers[k].kind = "fade")
       => \A i \in 1..3 : flashLights[i] > 0
  /\ (\E k \in 1..Len(timers) : timers[k].kind = "revert")
       => background = "white"

(* C26: a frame that triggers lightning ends with more bolts in            *)
(* activeBolts than the bolts of earlier triggers it kept: every bolt      *)
(* created in the update is in activeBolts when the update returns.        *)
C26_NewBoltSurvivesItsUpdate ==
  [][ (deltaTime' = FrameDelta(wall) /\ wall' = 0 /\ Len(timers') > Len(timers)) =>
        /\ Len(activeBolts') >= (Len(timers') - Len(timers)) \div 2
        /\ \E i \in 1..Len(activeBolts') : activeBolts'[i].age <= deltaTime' ]_vars

(* C27: when no callback of a trigger is pending, the background is the    *)
(* sky colour and every flash light has intensity 0, whatever the order of *)
(* the triggers, the callbacks and the frames before.                      *)
C27_FlashEndsWithTimers ==
  timers = <<>> => background = "sky" /\ flashLights = Dark

(* C27 witness: two triggers less than 0.2 s apart, whose four callbacks   *)
(* have all run; both bolts are still there.                               *)
C27_Witness ==
  /\ timers = <<>>
  /\ Len(activeBolts) = 2
  /\ background = "sky"
  /\ flashLights = Dark

----------------------------------------------------------------------------
(* Frames that are all at least 50 s apart: the ten initial clouds and the *)
(* clouds created after them, with the shortest and the longest maxAge.    *)
(* animate re-registers itself first thing in every frame (line 870), so   *)
(* another frame always comes.                                             *)

AgingElapsed == {5000, 20000}

AgingDraws == { Draw(7500, 7500, a, 8000) : a \in {0, 9999} }

InitAging ==
  \E d \in InitialDraws :
    Construct([evaporationRate |-> 10, simulationSpeed |-> 10], d)

UpdateAging == CloudFrame(AgingElapsed, {1}, SpawnRands, AgingDraws, TRUE, MaxCreated)

NextAging == UpdateAging

(* A frame is always possible and always changes the state (time moves on), *)
(* so weak fairness of the frame is: there are always more frames.          *)
SpecAging == InitAging /\ [][NextAging]_vars /\ []<><<UpdateAging>>_vars

(* C28: with every frame at least 50 s after the one before, every cloud   *)
(* of the collection is removed from it after finitely many frames, its    *)
(* maxAge being below 500 s, and a cloud that has left the collection is   *)
(* never in it again.                                                      *)
C28_EveryCloudIsRemoved ==
  /\ [](\A c \in CloudSet : c.maxAge < 50000)
  /\ \A id \in 1..MaxCreated : (id \in Ids(clouds)) ~> (id \notin Ids(clouds))
  /\ [][ \A id \in 1..(nextId - 1) :
           id \notin Ids(clouds) => id \notin Ids(clouds') ]_vars

(* C28 witness: the ten initial clouds and the first cloud created after   *)
(* them, one of the longest maxAge, have all been removed.                 *)
C28_Witness ==
  /\ clouds = <<>>
  /\ nextId = InitialClouds + 2
  /\ deltaTime >= 5000

----------------------------------------------------------------------------
(* The rain pool updated for ever: animate calls precipSystem.update in    *)
(* every frame, and an update that changes the pool is always possible (a  *)
(* spawn draw below 0.4), so weak fairness of the update is: there are     *)
(* always more updates.                                                    *)
SpecRainFair == SpecRain /\ []<><<UpdateRainSystems>>_vars

(* The particles of the pool given at the start: their x is their slot,    *)
(* 1 .. 500; a particle spawned under the cloud of the harness has x = 0.  *)
Given(pool) == {j \in 1..pool.activeParticles : pool.positions[j][1] >= 1}

(* C29: every particle of a pool has a fall speed below 0; an update       *)
(* lowers every particle it keeps by its fall speed, and a particle it     *)
(* spawned is after the update below its highest spawn height (the cloud's *)
(* height + 1) by its fall speed; and the particles a pool held at the     *)
(* start have all left it after finitely many updates.                     *)
C29_EveryParticleLeaves ==
  /\ [](\A id \in DOMAIN rainSystems :
          \A j \in 1..rainSystems[id].activeParticles : rainSystems[id].velocities[j] < 0)
  /\ [][ \A id \in (DOMAIN rainSystems) \cap (DOMAIN rainSystems') :
           LET lowered == SelectSeq(Fallen(Particles(rainSystems[id])), AboveGround)
               after == Particles(rainSystems'[id])
               top == CloudOf(clouds, id).y + 1000
           IN \A j \in 1..Len(after) :
                IF j <= Len(lowered)
                THEN after[j] = lowered[j]
                ELSE after[j][1][2] <= top + after[j][2] ]_vars
  /\ (\E id \in DOMAIN rainSystems : Given(rainSystems[id]) # {})
       ~> (\A id \in DOMAIN rainSystems : Given(rainSystems[id]) = {})

(* C29 witness: the last update took in a pool of 20 particles or more,    *)
(* which only the pool given at the start can hold, and none of the given  *)
(* particles is left after it.                                             *)
C29_Witness ==
  \E id \in (DOMAIN rainSystems) \cap (DOMAIN spawnLog) :
    /\ spawnLog[id].before >= 20
    /\ Given(rainSystems[id]) = {}

----------------------------------------------------------------------------
(* C30: determineCloudType returns stratocumulus only for a humidity of 60 *)
(* or less: above 60 a draw above 0.7 gives cumulonimbus, congestus or     *)
(* mediocris.                                                              *)
C30_NoStratocumulusWhenHumid ==
  probe.fn = "determineCloudType" =>
    /\ probe.result = "stratocumulus" => probe.humidity <= 60 /\ probe.rand > 7000
    /\ (probe.humidity > 60 /\ probe.rand > 7000) =>
         probe.result \in {"cumulonimbus", "cumulus_congestus", "cumulus_mediocris"}

(* C30 witness: the highest draw under a humidity of 61 has given a        *)
(* mediocris.                                                              *)
C30_Witness ==
  /\ probe.fn = "determineCloudType"
  /\ probe.humidity = 61 /\ probe.rand = 9999
  /\ probe.result = "cumulus_mediocris"

====
